---- MODULE Spec2Model ----
(***************************************************************************)
(* The mining and validation engine of the proof-of-work ledger:           *)
(* MineableTransaction, MineableBlock, MineableChain and                   *)
(* isValidMineableChain, and isValidTransaction, isValidBlock and          *)
(* isValidChain.                                                           *)
(*                                                                         *)
(* JavaScript values are tagged records, so that null, undefined, NaN,     *)
(* numbers and strings stay distinct and comparable:                       *)
(*   Null, Undefined, NaN, Num(n), and strings [t |-> "string", ...].      *)
(* Transaction amounts and nonces are plain integers.                      *)
(***************************************************************************)
EXTENDS Integers, Sequences, FiniteSets, TLC

VARIABLES
  blocks,               \* chain.blocks
  pendingTransactions,  \* chain.pendingTransactions
  difficulty,           \* chain.difficulty
  reward,               \* chain.reward
  pc,                   \* position of the mine call: "idle" or "mining"
  newBlock,             \* mine's local newBlock
  i,                    \* mine's local nonce counter i
  lastCall,             \* the most recent call and its outcome
  ledger,               \* the validator's state: address -> encoded resource
  request,              \* the txn the handler's apply is working on
  step,                 \* position in createCollection's promise chain
  setStateCalls,        \* the updates apply has passed to context.setState
  written               \* the addresses the first setState resolved with

\* the transaction handler's part of the state
hvars == <<ledger, request, step, setStateCalls, written>>

vars == <<blocks, pendingTransactions, difficulty, reward, pc, newBlock, i,
          lastCall, hvars>>

----------------------------------------------------------------------------
(* Bounds of the model. *)

MaxMined == 2      \* blocks mined on top of genesis
MaxPending == 1    \* transactions submitted to the queue between two mines
MaxNonce == 5      \* iterations of the proof-of-work loop that are explored
MaxVTxns == 3      \* transactions in a chain given to the validators

----------------------------------------------------------------------------
(* JavaScript values. *)

Null == [t |-> "null"]
Undefined == [t |-> "undefined"]
NaN == [t |-> "NaN"]
Num(n) == [t |-> "number", v |-> n]

\* no transaction has reached the handler: the validator's state is empty
HandlerInit ==
  /\ ledger = [address \in {} |-> Undefined]
  /\ request = Null
  /\ step = "idle"
  /\ setStateCalls = <<>>
  /\ written = <<>>

\* ToBoolean: undefined, null, NaN and 0 are falsy; the (non-empty) strings
\* of the model and the non-zero numbers are truthy.
Truthy(v) ==
  CASE v.t = "string" -> TRUE
    [] v.t = "number" -> v.v # 0
    [] OTHER -> FALSE

\* b + n for a balance b and an integer n: undefined + n and NaN + n are NaN.
Plus(b, n) == IF b.t = "number" THEN Num(b.v + n) ELSE NaN

\* b >= n: a comparison with undefined or NaN is false.
GreaterEq(b, n) == b.t = "number" /\ b.v >= n

Min(a, b) == IF a <= b THEN a ELSE b

\* '0'.repeat(len)
Repeat(c, len) == [k \in 1..len |-> c]

\* str.slice(0, len) on a sequence of characters
Slice(s, len) == SubSeq(s, 1, Min(len, Len(s)))

----------------------------------------------------------------------------
(* The identity provider (signing.js): keys and signatures are symbolic.   *)

PrivateKeys == {"kA", "kB", "kM"}

getPublicKey(privateKey) == [t |-> "string", pub |-> privateKey]

sign(privateKey, message) ==
  [t |-> "string", signer |-> privateKey, msg |-> message]

verify(publicKey, message, signature) ==
  /\ publicKey = getPublicKey(signature.signer)
  /\ signature.msg = message

Identities == {getPublicKey(k) : k \in PrivateKeys}

\* '' + a + b + c: the message is kept as the sequence of its three parts
\* (null prints as "null" whichever part it is).
Concat(a, b, c) == <<a, b, c>>

----------------------------------------------------------------------------
(* MineableTransaction *)

MineableTransaction(privateKey, recipient, amount) ==
  LET source == IF Truthy(recipient) THEN getPublicKey(privateKey) ELSE Null
  IN [source |-> source,
      recipient |-> IF Truthy(recipient) THEN recipient
                    ELSE getPublicKey(privateKey),
      amount |-> amount,
      signature |-> sign(privateKey, Concat(source, recipient, amount))]

----------------------------------------------------------------------------
(* Block and Blockchain (blockchain.js).  The hash is a hex digest: its    *)
(* leading characters come from a mixing function of the block's contents  *)
(* and the nonce, and the rest of the digest is kept as the preimage it    *)
(* stands for, so that different contents give different digests           *)
(* (collision resistance).                                                 *)

DigestTable ==
  << <<"0", "0">>, <<"a", "0">>, <<"0", "f">>, <<"7", "3">> >>

RECURSIVE SumAmounts(_)
SumAmounts(transactions) ==
  IF transactions = <<>> THEN 0
  ELSE Head(transactions).amount + SumAmounts(Tail(transactions))

Seed(transactions, previousHash) ==
  Len(transactions) + SumAmounts(transactions)
    + (IF previousHash.t = "string"
       THEN Len(previousHash.of[1]) + previousHash.of[3] + 1
       ELSE 0)

digest(transactions, previousHash, nonce) ==
  [t |-> "string",
   hex |-> DigestTable[((Seed(transactions, previousHash) + nonce)
                          % Len(DigestTable)) + 1],
   of |-> <<transactions, previousHash, nonce>>]

calculateHash(block, nonce) ==
  [block EXCEPT !.nonce = nonce,
                !.hash = digest(block.transactions, block.previousHash, nonce)]

Block(transactions, previousHash) ==
  calculateHash([transactions |-> transactions,
                 previousHash |-> previousHash,
                 nonce |-> Undefined,
                 hash |-> Undefined], 0)

verifyHash(block) ==
  digest(block.transactions, block.previousHash, block.nonce)

Genesis == Block(<<>>, Null)

getHeadBlock(chainBlocks) == chainBlocks[Len(chainBlocks)]

----------------------------------------------------------------------------
(* MineableBlock *)

MineableBlock(transactions, previousHash) ==
  [Block(transactions, previousHash) EXCEPT !.nonce = Undefined,
                                            !.hash = Undefined]

\* mutant: the slice is one character short of the difficulty
leadingZeros_short(str, len) ==
  len = 0 \/ Repeat("0", len - 1) = Slice(str.hex, len - 1)

leadingZeros(str, len) == Repeat("0", len) = Slice(str.hex, len)

----------------------------------------------------------------------------
(* Results of a call: a returned boolean, or an error raised to the caller. *)

Return(b) == [threw |-> FALSE, value |-> b]
TypeError == [threw |-> TRUE, value |-> FALSE]
Error(message) == [t |-> "Error", message |-> message]

\* lastCall: the operation called, the error it raised to its caller (or
\* Undefined) and what it returned (or Undefined)
Call(op, threw, returned) == [op |-> op, threw |-> threw, returned |-> returned]

----------------------------------------------------------------------------
(* isValidMineableChain.  A blockchain is [blocks, difficulty, reward].    *)

\* mutant: the proof of work is tested on the hash recomputed from the block
validHashes_recomputed(blockchain) ==
  \A k \in 2..Len(blockchain.blocks) :
    leadingZeros(verifyHash(blockchain.blocks[k]), blockchain.difficulty)

validHashes(blockchain) ==
  \A k \in 2..Len(blockchain.blocks) :
    leadingZeros(blockchain.blocks[k].hash, blockchain.difficulty)

NullSources(transactions) ==
  {j \in 1..Len(transactions) : transactions[j].source = Null}

\* mutant: a block may hold two transactions with a null source
oneRewardPerBlock_two(blockchain) ==
  ~ \E k \in 1..Len(blockchain.blocks) :
      Cardinality(NullSources(blockchain.blocks[k].transactions)) > 2

oneRewardPerBlock(blockchain) ==
  ~ \E k \in 1..Len(blockchain.blocks) :
      Cardinality(NullSources(blockchain.blocks[k].transactions)) > 1

\* mutant: only an amount above the reward is rejected
notTamperedReward_above(blockchain) ==
  \A k \in 1..Len(blockchain.blocks) :
    {j \in NullSources(blockchain.blocks[k].transactions) :
       blockchain.blocks[k].transactions[j].amount > blockchain.reward} = {}

notTamperedReward(blockchain) ==
  \A k \in 1..Len(blockchain.blocks) :
    {j \in NullSources(blockchain.blocks[k].transactions) :
       blockchain.blocks[k].transactions[j].amount # blockchain.reward} = {}

\* blocks.map(block => block.transactions).reduce(concat, [])
RECURSIVE AllTransactions(_)
AllTransactions(chainBlocks) ==
  IF chainBlocks = <<>> THEN <<>>
  ELSE Head(chainBlocks).transactions \o AllTransactions(Tail(chainBlocks))

\* the reduce's initial value { isValid: true }: no identity has an entry
InitialState == [isValid |-> TRUE, bal |-> [p \in Identities |-> Undefined]]

\* mutant: no exception for a transfer of amount 0
Debit_strict(state, txn) ==
  IF Truthy(state.bal[txn.source])
       /\ GreaterEq(state.bal[txn.source], txn.amount)
  THEN [state EXCEPT !.bal[txn.source] = Plus(@, 0 - txn.amount)]
  ELSE [state EXCEPT !.isValid = FALSE]

\* mutant: the debit is made without looking at the balance
Debit_unchecked(state, txn) ==
  [state EXCEPT !.bal[txn.source] = Plus(@, 0 - txn.amount)]

\* lines 145-155: the debit of a transaction with a source
Debit(state, txn) ==
  IF Truthy(state.bal[txn.source])
       /\ GreaterEq(state.bal[txn.source], txn.amount)
  THEN [state EXCEPT !.bal[txn.source] = Plus(@, 0 - txn.amount)]
  ELSE IF txn.amount = 0
       THEN [state EXCEPT !.bal[txn.source] = Num(txn.amount)]
       ELSE [state EXCEPT !.isValid = FALSE]

\* line 157: the credit
Credit(state, txn) ==
  IF state.isValid
  THEN [state EXCEPT !.bal[txn.recipient] = Plus(@, txn.amount)]
  ELSE state

\* mutant: the reducer has no early return for an invalid state
Reducer_continue(state, txn) ==
  Credit(IF Truthy(txn.source) THEN Debit(state, txn) ELSE state, txn)

\* the reducer (state, txn) => ... of lines 142-160
Reducer(state, txn) ==
  IF ~state.isValid THEN state
  ELSE Credit(IF Truthy(txn.source) THEN Debit(state, txn) ELSE state, txn)

RECURSIVE Reduce(_, _)
Reduce(state, transactions) ==
  IF transactions = <<>> THEN state
  ELSE Reduce(Reducer(state, Head(transactions)), Tail(transactions))

enoughFunds(blockchain) ==
  Reduce(InitialState, AllTransactions(blockchain.blocks))

isValidMineableChain(blockchain) ==
  IF \E k \in 2..Len(blockchain.blocks) :
       blockchain.blocks[k].hash.t # "string"
  THEN TypeError   \* leadingZeros reads .slice of undefined or null
  ELSE Return(/\ validHashes(blockchain)
              /\ oneRewardPerBlock(blockchain)
              /\ notTamperedReward(blockchain)
              /\ enoughFunds(blockchain).isValid)

----------------------------------------------------------------------------
(* isValidTransaction, isValidBlock, isValidChain *)

isValidTransaction(transaction) ==
  IF transaction.amount < 0 THEN FALSE
  ELSE verify(transaction.source,
              Concat(transaction.source, transaction.recipient,
                     transaction.amount),
              transaction.signature)

isValidBlock(block) ==
  LET transactionValidity ==
        \A j \in 1..Len(block.transactions) :
          isValidTransaction(block.transactions[j])
      \* verifyHash returns a digest string, which no absent hash equals
      blockValidity == IF block.hash.t = "string"
                       THEN verifyHash(block) = block.hash
                       ELSE FALSE
  IN transactionValidity /\ blockValidity

\* mutant: the blocks themselves are not validated
isValidChain_skipBlocks(blockchain) ==
  LET bs == blockchain.blocks
  IN IF bs = <<>> THEN TypeError
     ELSE IF bs[1].previousHash # Null \/ Len(bs[1].transactions) # 0
          THEN Return(FALSE)
          ELSE Return(/\ \A k \in 1..Len(bs) : bs[k].hash # Null
                      /\ \A k \in 1..(Len(bs) - 1) :
                           bs[k].hash = bs[k + 1].previousHash)

\* mutant: the test on genesis is inverted
isValidChain_inverted(blockchain) ==
  IF blockchain.blocks = <<>> THEN TypeError
  ELSE Return(blockchain.blocks[1].previousHash # Null)

isValidChain(blockchain) ==
  LET bs == blockchain.blocks
      genesis == bs[1]
      notNullHash == \A k \in 1..Len(bs) : bs[k].hash # Null
      validBlocks == \A k \in 1..Len(bs) : isValidBlock(bs[k])
      matchingHashes ==
        \A k \in 1..(Len(bs) - 1) : bs[k].hash = bs[k + 1].previousHash
  IN IF bs = <<>> THEN TypeError   \* genesis is undefined
     ELSE IF genesis.previousHash # Null \/ Len(genesis.transactions) # 0
          THEN Return(FALSE)
          ELSE Return(notNullHash /\ validBlocks /\ matchingHashes)

----------------------------------------------------------------------------
(* MineableChain: the state machine of one chain object. *)

DefaultDifficulty == 2
DefaultReward == 5

\* difficulty is a public property; the chains explored take it from here
Difficulties == {0, 1, DefaultDifficulty}

\* the transfers callers submit, and the keys that mine
Senders == {"kA"}
Recipients == {getPublicKey("kB")}
Amounts == {3, 10}
Miners == {"kA", "kM"}

Transfers ==
  {MineableTransaction(k, r, a) : k \in Senders, r \in Recipients, a \in Amounts}

chain == [blocks |-> blocks, difficulty |-> difficulty, reward |-> reward]

Init ==
  /\ blocks = <<Genesis>>
  /\ difficulty \in Difficulties
  /\ reward = DefaultReward
  /\ pendingTransactions = <<>>
  /\ pc = "idle"
  /\ newBlock = Undefined
  /\ i = 0
  /\ lastCall = Call("constructor", Undefined, Undefined)
  /\ HandlerInit

\* mutant: the inherited addBlock, which appends a block and raises nothing
addBlock_inherited ==
  /\ blocks' = Append(blocks, Block(<<>>, getHeadBlock(blocks).hash))
  /\ lastCall' = Call("addBlock", Undefined, Undefined)
  /\ UNCHANGED <<pendingTransactions, difficulty, reward, pc, newBlock, i,
                 hvars>>

addBlock ==
  /\ lastCall' = Call("addBlock",
                      Error("Must mine to add blocks to this blockchain"),
                      Undefined)
  /\ UNCHANGED <<blocks, pendingTransactions, difficulty, reward, pc,
                 newBlock, i, hvars>>

\* mutant: a transaction sent while a block is mined also joins that block
addTransaction_intoBlock(transaction) ==
  /\ Len(pendingTransactions) < MaxPending
  /\ pendingTransactions' = Append(pendingTransactions, transaction)
  /\ newBlock' = IF pc = "mining"
                 THEN [newBlock EXCEPT !.transactions = Append(@, transaction)]
                 ELSE newBlock
  /\ lastCall' = Call("addTransaction", Undefined, Undefined)
  /\ UNCHANGED <<blocks, difficulty, reward, pc, i, hvars>>

addTransaction(transaction) ==
  /\ Len(pendingTransactions) < MaxPending
  /\ pendingTransactions' = Append(pendingTransactions, transaction)
  /\ lastCall' = Call("addTransaction", Undefined, Undefined)
  /\ UNCHANGED <<blocks, difficulty, reward, pc, newBlock, i, hvars>>

\* mutant: the new block is linked to the head's previousHash
mineBegin_unlinked(privateKey) ==
  /\ pc = "idle"
  /\ Len(blocks) <= MaxMined
  /\ LET rewardTransaction == MineableTransaction(privateKey, Null, reward)
         queue == Append(pendingTransactions, rewardTransaction)
     IN newBlock' = MineableBlock(queue, getHeadBlock(blocks).previousHash)
  /\ pendingTransactions' = <<>>
  /\ i' = 0
  /\ pc' = "mining"
  /\ lastCall' = Call("mine", Undefined, Undefined)
  /\ UNCHANGED <<blocks, difficulty, reward, hvars>>

\* mutant: the reward is put at the front of the queue
mineBegin_rewardFirst(privateKey) ==
  /\ pc = "idle"
  /\ Len(blocks) <= MaxMined
  /\ LET rewardTransaction == MineableTransaction(privateKey, Null, reward)
         queue == <<rewardTransaction>> \o pendingTransactions
     IN newBlock' = MineableBlock(queue, getHeadBlock(blocks).hash)
  /\ pendingTransactions' = <<>>
  /\ i' = 0
  /\ pc' = "mining"
  /\ lastCall' = Call("mine", Undefined, Undefined)
  /\ UNCHANGED <<blocks, difficulty, reward, hvars>>

\* mine, lines 104-109: the reward is queued, the block is built on the
\* queue and the queue is replaced by an empty one
mineBegin(privateKey) ==
  /\ pc = "idle"
  /\ Len(blocks) <= MaxMined
  /\ LET rewardTransaction == MineableTransaction(privateKey, Null, reward)
         queue == Append(pendingTransactions, rewardTransaction)
     IN newBlock' = MineableBlock(queue, getHeadBlock(blocks).hash)
  /\ pendingTransactions' = <<>>
  /\ i' = 0
  /\ pc' = "mining"
  /\ lastCall' = Call("mine", Undefined, Undefined)
  /\ UNCHANGED <<blocks, difficulty, reward, hvars>>

\* mutant: the loop asks for one more leading zero than the difficulty
mined_deeper(block) ==
  Truthy(block.hash) /\ leadingZeros(block.hash, difficulty + 1)

\* the condition that ends the while loop of line 110
mined(block) == Truthy(block.hash) /\ leadingZeros(block.hash, difficulty)

\* mutant: the nonce is incremented before it is used
mineStep_preIncrement ==
  /\ pc = "mining"
  /\ ~mined(newBlock)
  /\ i < MaxNonce
  /\ newBlock' = calculateHash(newBlock, i + 1)
  /\ i' = i + 1
  /\ lastCall' = Call("mine", Undefined, Undefined)
  /\ UNCHANGED <<blocks, pendingTransactions, difficulty, reward, pc, hvars>>

\* mine, lines 110-112: one iteration of the proof-of-work loop
mineStep ==
  /\ pc = "mining"
  /\ ~mined(newBlock)
  /\ i < MaxNonce
  /\ newBlock' = calculateHash(newBlock, i)
  /\ i' = i + 1
  /\ lastCall' = Call("mine", Undefined, Undefined)
  /\ UNCHANGED <<blocks, pendingTransactions, difficulty, reward, pc, hvars>>

\* mutant: the mined block takes the place of the head block
mineEnd_replace ==
  /\ pc = "mining"
  /\ mined(newBlock)
  /\ blocks' = Append(SubSeq(blocks, 1, Len(blocks) - 1), newBlock)
  /\ newBlock' = Undefined
  /\ i' = 0
  /\ pc' = "idle"
  /\ lastCall' = Call("mine", Undefined, Undefined)
  /\ UNCHANGED <<pendingTransactions, difficulty, reward, hvars>>

\* mutant: the queue is emptied when the block is pushed
mineEnd_clear ==
  /\ pc = "mining"
  /\ mined(newBlock)
  /\ blocks' = Append(blocks, newBlock)
  /\ pendingTransactions' = <<>>
  /\ newBlock' = Undefined
  /\ i' = 0
  /\ pc' = "idle"
  /\ lastCall' = Call("mine", Undefined, Undefined)
  /\ UNCHANGED <<difficulty, reward, hvars>>

\* mine, line 113: the loop has ended, the block is pushed and mine returns
mineEnd ==
  /\ pc = "mining"
  /\ mined(newBlock)
  /\ blocks' = Append(blocks, newBlock)
  /\ newBlock' = Undefined
  /\ i' = 0
  /\ pc' = "idle"
  /\ lastCall' = Call("mine", Undefined, Undefined)
  /\ UNCHANGED <<pendingTransactions, difficulty, reward, hvars>>

\* a caller runs the two validators on the chain; they only read it
validate ==
  /\ pc = "idle"
  /\ lastCall' = Call("validate", Undefined,
                      [isValidChain |-> isValidChain(chain),
                       isValidMineableChain |-> isValidMineableChain(chain)])
  /\ UNCHANGED <<blocks, pendingTransactions, difficulty, reward, pc,
                 newBlock, i, hvars>>

Next ==
  \/ addBlock
  \/ \E transaction \in Transfers : addTransaction(transaction)
  \/ \E privateKey \in Miners : mineBegin(privateKey)
  \/ mineStep
  \/ mineEnd
  \/ validate

Spec == Init /\ [][Next]_vars

----------------------------------------------------------------------------
(* The validators on chain values: a caller assembles a chain out of       *)
(* constructed transactions and hashed blocks (correct or not as a         *)
(* ledger), and runs the validators on it.                                 *)

VSigners == {"kA"}
VRecipients == {Null, getPublicKey("kA"), getPublicKey("kB")}
VAmounts == {0, DefaultReward}

VTransactions ==
  {MineableTransaction(k, r, a) :
     k \in VSigners, r \in VRecipients, a \in VAmounts}

\* the nonce the proof-of-work search of mine stops at, for the default
\* difficulty
LeastNonce(transactions, previousHash) ==
  CHOOSE n \in 0..(Len(DigestTable) - 1) :
    /\ leadingZeros(digest(transactions, previousHash, n), DefaultDifficulty)
    /\ \A m \in 0..(n - 1) :
         ~leadingZeros(digest(transactions, previousHash, m),
                       DefaultDifficulty)

VInit ==
  /\ blocks = <<Genesis>>
  /\ difficulty = DefaultDifficulty
  /\ reward = DefaultReward
  /\ pendingTransactions = <<>>
  /\ pc = "idle"
  /\ newBlock = Undefined
  /\ i = 0
  /\ lastCall = Call("constructor", Undefined, Undefined)
  /\ HandlerInit

\* a block of the transactions on top of previousHash, mined as mine does
\* it or hashed with nonce 0
Hashed(transactions, previousHash, isMined) ==
  calculateHash(MineableBlock(transactions, previousHash),
                IF isMined THEN LeastNonce(transactions, previousHash) ELSE 0)

\* the caller puts a block with one transaction at the end of blocks
pushBlock(transaction, isMined) ==
  /\ Len(AllTransactions(blocks)) < MaxVTxns
  /\ blocks' = Append(blocks, Hashed(<<transaction>>,
                                     getHeadBlock(blocks).hash, isMined))
  /\ lastCall' = Call("constructor", Undefined, Undefined)
  /\ UNCHANGED <<pendingTransactions, difficulty, reward, pc, newBlock, i,
                 hvars>>

\* the caller builds the head block with one more transaction
pushTransaction(transaction, isMined) ==
  /\ Len(blocks) > 1
  /\ Len(AllTransactions(blocks)) < MaxVTxns
  /\ blocks' = [blocks EXCEPT ![Len(blocks)] =
                  Hashed(Append(@.transactions, transaction),
                         @.previousHash, isMined)]
  /\ lastCall' = Call("constructor", Undefined, Undefined)
  /\ UNCHANGED <<pendingTransactions, difficulty, reward, pc, newBlock, i,
                 hvars>>

VNext ==
  \/ \E transaction \in VTransactions, isMined \in BOOLEAN :
       pushBlock(transaction, isMined)
  \/ \E transaction \in VTransactions, isMined \in BOOLEAN :
       pushTransaction(transaction, isMined)
  \/ validate

VSpec == VInit /\ [][VNext]_vars

----------------------------------------------------------------------------
(* Properties of the mined chain. *)

Reward(privateKey) == MineableTransaction(privateKey, Null, DefaultReward)
Transfer(privateKey, recipient, amount) ==
  MineableTransaction(privateKey, recipient, amount)

pubA == getPublicKey("kA")
pubB == getPublicKey("kB")
pubM == getPublicKey("kM")

\* the balances the ledger replay of the chain ends with
Balances == enoughFunds(chain).bal

\* the caller has just run the validators on the chain
Validated == lastCall.op = "validate"

IsPrefix(s, t) == Len(s) <= Len(t) /\ SubSeq(t, 1, Len(s)) = s

\* C1: after any sequence of addTransaction and mine operations on a chain
\* with difficulty d, every block other than genesis has a set hash whose
\* first d characters are all '0'.
C1_MinedHashesMeetDifficulty ==
  \A k \in 2..Len(blocks) :
    /\ blocks[k].hash.t = "string"
    /\ Len(blocks[k].hash.hex) >= difficulty
    /\ \A j \in 1..difficulty : blocks[k].hash.hex[j] = "0"

C1_Witness ==
  /\ Len(blocks) >= 3
  /\ difficulty = DefaultDifficulty
  /\ \E k \in 2..Len(blocks) : blocks[k].nonce > 0

\* the chain after mine(keyA) with an empty queue, addTransaction(transfer
\* from A to B of the amount) and mine(keyM), with difficulty 2 and reward 5
EndToEnd(amount) ==
  /\ difficulty = DefaultDifficulty
  /\ reward = DefaultReward
  /\ pc = "idle"
  /\ Len(blocks) = 3
  /\ blocks[2].transactions = <<Reward("kA")>>
  /\ blocks[3].transactions = <<Transfer("kA", pubB, amount), Reward("kM")>>

\* the state of the ledger replay after the first n transactions
ReplayAfter(n) == Reduce(InitialState, SubSeq(AllTransactions(blocks), 1, n))

\* C2: on a fresh chain with difficulty 2 and reward 5, after mine(keyA),
\* addTransaction(A -> B, 3) and mine(keyM), isValidMineableChain returns
\* true and the replay ends with A=2, B=3, M=5; and a credit to a recipient
\* without a balance entry creates its balance at the amount.
C2_EndToEndBalances ==
  /\ (EndToEnd(3) /\ Validated) =>
       /\ lastCall.returned.isValidMineableChain = Return(TRUE)
       /\ Balances[pubA] = Num(2)
       /\ Balances[pubB] = Num(3)
       /\ Balances[pubM] = Num(5)
  /\ \A n \in 1..Len(AllTransactions(blocks)) :
       LET txn == AllTransactions(blocks)[n]
       IN (/\ ReplayAfter(n - 1).bal[txn.recipient] = Undefined
           /\ ReplayAfter(n).isValid)
          => ReplayAfter(n).bal[txn.recipient] = Num(txn.amount)

\* C3: on a chain with reward 5 where A has only mined one block, a mined
\* transfer from A of amount 10 makes isValidMineableChain return false
\* because the ledger replay fails, while the proof-of-work check and the
\* single-reward check both still pass.
C3_Overdraft ==
  (EndToEnd(10) /\ Validated) =>
    /\ lastCall.returned.isValidMineableChain = Return(FALSE)
    /\ ~enoughFunds(chain).isValid
    /\ validHashes(chain)
    /\ oneRewardPerBlock(chain)

C3_Witness == EndToEnd(10) /\ Validated

\* C4: every non-genesis block's previousHash is set and equals the hash of
\* the block immediately before it in blocks, and genesis keeps an absent
\* previousHash and an empty transaction sequence.
C4_HashLinkage ==
  /\ blocks[1].previousHash = Null
  /\ blocks[1].transactions = <<>>
  /\ \A k \in 2..Len(blocks) :
       /\ blocks[k].previousHash.t = "string"
       /\ blocks[k].previousHash = blocks[k - 1].hash

C4_Witness ==
  /\ Len(blocks) >= 3
  /\ blocks[3].previousHash = blocks[2].hash
  /\ Len(blocks[3].transactions) > 1

\* C5: blocks is append-only: it is never empty, the list before each step
\* is a prefix of the list after it, only a completed mine lengthens it,
\* and each completed mine lengthens it by exactly one block.
C5_AppendOnly ==
  /\ [](blocks # <<>>)
  /\ [][/\ IsPrefix(blocks, blocks')
        /\ (blocks' # blocks => (pc = "mining" /\ pc' = "idle"))
        /\ ((pc = "mining" /\ pc' = "idle")
              => Len(blocks') = Len(blocks) + 1)]_vars

C5_Witness ==
  /\ Len(blocks) >= 3
  /\ lastCall.op = "addBlock"
  /\ pc = "idle"

\* C6: calling addBlock always ends in an error raised to the caller, and
\* leaves blocks, pendingTransactions, difficulty and reward unchanged.
C6_AddBlockRejected ==
  [][lastCall'.op = "addBlock" =>
       /\ lastCall'.threw.t = "Error"
       /\ UNCHANGED <<blocks, pendingTransactions, difficulty, reward>>]_vars

C6_Witness ==
  /\ lastCall.op = "addBlock"
  /\ lastCall.threw.t = "Error"
  /\ Len(blocks) = 2
  /\ pendingTransactions # <<>>

\* C10: for a freshly constructed chain that contains only the genesis
\* block, isValidChain returns true and isValidMineableChain returns true.
C10_FreshChainValid ==
  (Len(blocks) = 1 /\ Validated) =>
    /\ lastCall.returned.isValidChain = Return(TRUE)
    /\ lastCall.returned.isValidMineableChain = Return(TRUE)

C10_Witness ==
  /\ blocks = <<Genesis>>
  /\ pendingTransactions = <<>>
  /\ Validated

----------------------------------------------------------------------------
(* Properties of isValidMineableChain on assembled chains. *)

\* some block holds two or more transactions with a null source
TwoRewardsInABlock ==
  \E k \in 1..Len(blocks) :
    \E j1, j2 \in 1..Len(blocks[k].transactions) :
      /\ j1 < j2
      /\ blocks[k].transactions[j1].source = Null
      /\ blocks[k].transactions[j2].source = Null

\* some transaction with a null source has an amount other than the reward
WrongRewardAmount ==
  \E n \in 1..Len(AllTransactions(blocks)) :
    /\ AllTransactions(blocks)[n].source = Null
    /\ AllTransactions(blocks)[n].amount # reward

\* the n-th transaction of the replay is a transfer of amount 0 from a
\* source without a balance entry, reached with the replay still valid
ZeroFromUnknown(n) ==
  /\ AllTransactions(blocks)[n].source # Null
  /\ AllTransactions(blocks)[n].amount = 0
  /\ ReplayAfter(n - 1).isValid
  /\ ReplayAfter(n - 1).bal[AllTransactions(blocks)[n].source] = Undefined

\* C7: isValidMineableChain returns false for any chain in which some block
\* holds two or more transactions with a null source, also when every hash
\* meets the difficulty and every balance in the replay is sufficient.
C7_SingleRewardCheck ==
  (Validated /\ TwoRewardsInABlock) =>
    lastCall.returned.isValidMineableChain = Return(FALSE)

C7_Witness ==
  /\ Validated
  /\ TwoRewardsInABlock
  /\ validHashes(chain)
  /\ notTamperedReward(chain)
  /\ enoughFunds(chain).isValid

\* C8: isValidMineableChain returns false for any chain that contains a
\* transaction with a null source whose amount differs from chain.reward.
C8_RewardAmountCheck ==
  (Validated /\ WrongRewardAmount) =>
    lastCall.returned.isValidMineableChain = Return(FALSE)

C8_Witness ==
  /\ Validated
  /\ WrongRewardAmount
  /\ validHashes(chain)
  /\ oneRewardPerBlock(chain)
  /\ enoughFunds(chain).isValid

\* C9: in the ledger replay, a transfer of amount 0 from a source that has
\* no balance entry yet is accepted: it records balance 0 for that source
\* and does not make isValidMineableChain return false.
C9_ZeroTransferBootstrap ==
  /\ \A n \in 1..Len(AllTransactions(blocks)) :
       ZeroFromUnknown(n) =>
         /\ ReplayAfter(n).isValid
         /\ ReplayAfter(n).bal[AllTransactions(blocks)[n].source] = Num(0)
  /\ (/\ Validated
      /\ \A n \in 1..Len(AllTransactions(blocks)) :
           ZeroFromUnknown(n) \/ AllTransactions(blocks)[n].source = Null
      /\ validHashes(chain)
      /\ oneRewardPerBlock(chain)
      /\ notTamperedReward(chain))
     => lastCall.returned.isValidMineableChain = Return(TRUE)

C9_Witness ==
  /\ Validated
  /\ Len(blocks) = 3
  /\ ZeroFromUnknown(1)
  /\ AllTransactions(blocks)[2].source = Null
  /\ lastCall.returned.isValidMineableChain = Return(TRUE)

----------------------------------------------------------------------------
(* Tampering: a chain of mined blocks is assembled, one field of it is     *)
(* changed with the stored hashes left as they are (breakChain changes     *)
(* recipients and nonces), and the validators are run.                     *)

\* breakChain's myKey: the public key of a key no transaction was made with
myKey == getPublicKey("kM")

\* the nonces breakChain's Math.random() may yield, among them
NonceChoices == {0, 1}

\* the stored hash of the block is the hash of what the block holds
Untouched(block) ==
  block.hash.of = <<block.transactions, block.previousHash, block.nonce>>

AllUntouched == \A k \in 1..Len(blocks) : Untouched(blocks[k])

\* breakChain, line 66, on one transaction
tamperRecipient(k, j) ==
  /\ AllUntouched
  /\ blocks[k].transactions[j].recipient # myKey
  /\ blocks' = [blocks EXCEPT ![k].transactions[j].recipient = myKey]
  /\ lastCall' = Call("breakChain", Undefined, Undefined)
  /\ UNCHANGED <<pendingTransactions, difficulty, reward, pc, newBlock, i,
                 hvars>>

\* breakChain, line 64, on one block
tamperNonce(k, nonce) ==
  /\ AllUntouched
  /\ blocks' = [blocks EXCEPT ![k].nonce = nonce]
  /\ lastCall' = Call("breakChain", Undefined, Undefined)
  /\ UNCHANGED <<pendingTransactions, difficulty, reward, pc, newBlock, i,
                 hvars>>

\* the signature of one transaction is replaced by one made with another key
forgeSignature(k, j) ==
  /\ AllUntouched
  /\ blocks' = [blocks EXCEPT ![k].transactions[j].signature =
                                sign("kM", @.msg)]
  /\ lastCall' = Call("forge", Undefined, Undefined)
  /\ UNCHANGED <<pendingTransactions, difficulty, reward, pc, newBlock, i,
                 hvars>>

TNext ==
  \/ /\ AllUntouched
     /\ \E transaction \in VTransactions : pushBlock(transaction, TRUE)
  \/ /\ AllUntouched
     /\ \E transaction \in VTransactions : pushTransaction(transaction, TRUE)
  \/ \E k \in 1..Len(blocks) : \E j \in 1..Len(blocks[k].transactions) :
       tamperRecipient(k, j)
  \/ \E k \in 1..Len(blocks) : \E nonce \in NonceChoices :
       tamperNonce(k, nonce)
  \/ \E k \in 1..Len(blocks) : \E j \in 1..Len(blocks[k].transactions) :
       forgeSignature(k, j)
  \/ validate

TSpec == VInit /\ [][TNext]_vars

\* the transactions the block held when it got its stored hash
HashedTransactions(block) == block.hash.of[1]

\* the recipient of a transaction of block k is not the one it had when the
\* block got its hash
RecipientChanged(k) ==
  \E j \in 1..Len(blocks[k].transactions) :
    blocks[k].transactions[j].recipient
      # HashedTransactions(blocks[k])[j].recipient

\* C11: if the recipient of any transaction in a block is changed after the
\* block got its hash, and the stored hash is left as it was, isValidBlock
\* returns false for that block and isValidChain returns false for the
\* chain that holds it.
C11_TamperedRecipientRejected ==
  \A k \in 1..Len(blocks) :
    RecipientChanged(k) =>
      /\ ~isValidBlock(blocks[k])
      /\ Validated => lastCall.returned.isValidChain = Return(FALSE)

\* the tampered block is the only flaw: before the change the block was
\* valid, and so are the other blocks
C11_Witness ==
  /\ Validated
  /\ \E k \in 2..Len(blocks) :
       /\ RecipientChanged(k)
       /\ isValidBlock([blocks[k] EXCEPT
                          !.transactions = HashedTransactions(blocks[k])])
       /\ \A m \in 1..Len(blocks) : m # k => isValidBlock(blocks[m])
  /\ lastCall.returned.isValidChain = Return(FALSE)

----------------------------------------------------------------------------
(* The signature of constructed transactions *)

\* The signer of a transaction as its stored fields name it: the source of
\* a transfer, the recipient of a reward.
SignerIdentity(transaction) ==
  IF transaction.source = Null THEN transaction.recipient
  ELSE transaction.source

SignedOverStoredFields(transaction) ==
  \E privateKey \in PrivateKeys :
    /\ getPublicKey(privateKey) = SignerIdentity(transaction)
    /\ transaction.signature =
         sign(privateKey, Concat(transaction.source, transaction.recipient,
                                 transaction.amount))

\* C12: every transaction built by the MineableTransaction constructor,
\* transfer or reward, is signed by the signer's key over the message of its
\* own stored fields (source or null, recipient, amount); for a reward the
\* recipient in the message is the signer's public key.
C12_SignedOverStoredFields ==
  /\ \A j \in 1..Len(pendingTransactions) :
       SignedOverStoredFields(pendingTransactions[j])
  /\ \A k \in 1..Len(blocks) : \A j \in 1..Len(blocks[k].transactions) :
       SignedOverStoredFields(blocks[k].transactions[j])

----------------------------------------------------------------------------
(* Transactions sent while a block is being mined *)

\* The transfer a caller sends while mine is in its loop. Its amount is the
\* length of the chain at that moment, which tells the mine call it arrived
\* in: the block of that call is appended at position amount + 1.
LateTransfer(n) == MineableTransaction("kB", getPublicKey("kA"), n)

addTransactionWhileMining ==
  /\ pc = "mining"
  /\ addTransaction(LateTransfer(Len(blocks)))

CNext ==
  \/ /\ pc = "idle"
     /\ \E transaction \in Transfers : addTransaction(transaction)
  \/ addTransactionWhileMining
  \/ \E privateKey \in Miners : mineBegin(privateKey)
  \/ mineStep
  \/ mineEnd

CSpec == Init /\ [][CNext]_vars

LateCalls == 1..(MaxMined + 1)

LateIn(transactions, n) ==
  \E j \in 1..Len(transactions) : transactions[j] = LateTransfer(n)

LateInBlocks(n) ==
  \E k \in 1..Len(blocks) : LateIn(blocks[k].transactions, n)

\* C13 as claimed: a transaction sent while a mine call is between clearing
\* the queue and appending its block is in no block appended by a later mine
\* call.
C13_LateNeverMined == \A n \in LateCalls : ~LateInBlocks(n)

\* C13: a transaction sent while a mine call is between clearing the queue
\* and appending its block is kept: it stays in pendingTransactions until the
\* next mine call takes it into its block, and that block, the one appended
\* right after the block of the call it arrived in, holds it.
C13_LateKeptForNextBlock ==
  [][\A n \in LateCalls :
       /\ LateIn(pendingTransactions, n) =>
            \/ LateIn(pendingTransactions', n)
            \/ pc' = "mining" /\ LateIn(newBlock'.transactions, n)
       /\ (pc = "mining" /\ LateIn(newBlock.transactions, n)) =>
            \/ pc' = "mining" /\ LateIn(newBlock'.transactions, n)
            \/ /\ Len(blocks') = n + 2
               /\ LateIn(blocks'[n + 2].transactions, n)]_vars

C13_Witness ==
  \E n \in LateCalls :
    /\ Len(blocks) = n + 2
    /\ LateIn(blocks[n + 2].transactions, n)
    /\ ~LateIn(blocks[n + 1].transactions, n)

\* C14: a transaction sent while a mine call is between clearing the queue
\* and appending its block is not in the block this mine call appends.
C14_LateNotInThisBlock ==
  /\ \A n \in LateCalls :
       Len(blocks) >= n + 1 => ~LateIn(blocks[n + 1].transactions, n)
  /\ pc = "mining" => ~LateIn(newBlock.transactions, Len(blocks))

C14_Witness ==
  /\ pc = "idle"
  /\ lastCall.op = "mine"
  /\ LateIn(pendingTransactions, Len(blocks) - 1)
  /\ ~LateIn(getHeadBlock(blocks).transactions, Len(blocks) - 1)

----------------------------------------------------------------------------
(* Chain values without a genesis block or with an unhashed block *)

\* blocks is a public array: the chain handed to a validator may have no
\* block at all
EInit ==
  /\ blocks \in {<<>>, <<Genesis>>}
  /\ difficulty = DefaultDifficulty
  /\ reward = DefaultReward
  /\ pendingTransactions = <<>>
  /\ pc = "idle"
  /\ newBlock = Undefined
  /\ i = 0
  /\ lastCall = Call("constructor", Undefined, Undefined)
  /\ HandlerInit

\* the caller puts a block at the end of blocks as the MineableBlock
\* constructor leaves it: calculateHash was never called, hash is absent
pushUnhashed(transaction) ==
  /\ blocks # <<>>
  /\ Len(AllTransactions(blocks)) < MaxVTxns
  /\ blocks' = Append(blocks, MineableBlock(<<transaction>>,
                                            getHeadBlock(blocks).hash))
  /\ lastCall' = Call("constructor", Undefined, Undefined)
  /\ UNCHANGED <<pendingTransactions, difficulty, reward, pc, newBlock, i,
                 hvars>>

ENext ==
  \/ /\ blocks # <<>>
     /\ \E transaction \in VTransactions : pushBlock(transaction, TRUE)
  \/ \E transaction \in VTransactions : pushUnhashed(transaction)
  \/ validate

ESpec == EInit /\ [][ENext]_vars

\* C15: isValidChain and isValidMineableChain always end with a boolean
\* verdict and never raise an error, also for a chain without blocks and for
\* a chain with a non-genesis block whose hash is absent.
C15_ValidatorsNeverRaise ==
  Validated =>
    /\ ~lastCall.returned.isValidChain.threw
    /\ ~lastCall.returned.isValidMineableChain.threw

----------------------------------------------------------------------------
(* isValidAddress (processor/services/addressing.js).  A string is the     *)
(* sequence of its characters.                                             *)

Str(chars) == [t |-> "string", chars |-> chars]

NAMESPACE == <<"5", "f", "4", "d", "7", "6">>

AddressLength == 70

isValidAddress(address) ==
  IF address.t \in {"null", "undefined"}
  THEN TypeError   \* address.length of null or undefined
  ELSE LET isString == address.t = "string"
           \* a number has no length property: undefined === 70 is false
           hasProperLength ==
             isString /\ Len(address.chars) = AddressLength
           hasCryptomojiNamespace ==
             isString /\ Slice(address.chars, Len(NAMESPACE)) = NAMESPACE
       IN Return(isString /\ hasProperLength /\ hasCryptomojiNamespace)

\* the addresses callers pass: values that are no strings, and strings made
\* of six leading characters and a repeated character, cut at some length
Starts ==
  {NAMESPACE,
   <<"0", "0", "0", "0", "0", "0">>,
   <<"5", "f", "4", "d", "7", "7">>,
   <<"5", "F", "4", "D", "7", "6">>}

Fillers == {"0", "9", "a", "f", "E", "g", "z"}

Lengths == {0, 5, 8, AddressLength - 1, AddressLength, AddressLength + 1}

Addresses ==
  {Null, Undefined, Num(0), Num(AddressLength)}
    \cup {Str(Slice(start \o Repeat(filler, AddressLength), len)) :
            start \in Starts, filler \in Fillers, len \in Lengths}

\* a caller validates an address; the call is recorded with its argument
checkAddress(address) ==
  /\ lastCall' = Call("isValidAddress", Undefined,
                      [address |-> address,
                       isValidAddress |-> isValidAddress(address)])
  /\ UNCHANGED <<blocks, pendingTransactions, difficulty, reward, pc,
                 newBlock, i, hvars>>

ANext == \E address \in Addresses : checkAddress(address)

ASpec == VInit /\ [][ANext]_vars

HexCharacters ==
  {"0", "1", "2", "3", "4", "5", "6", "7", "8", "9",
   "a", "b", "c", "d", "e", "f", "A", "B", "C", "D", "E", "F"}

IsHex(chars) == \A n \in 1..Len(chars) : chars[n] \in HexCharacters

WellFormedAddress(address) ==
  /\ address.t = "string"
  /\ Len(address.chars) = AddressLength
  /\ IsHex(address.chars)
  /\ Slice(address.chars, Len(NAMESPACE)) = NAMESPACE

\* C16: isValidAddress returns false, without raising an error, for every
\* input that is not a string, that is not exactly 70 hexadecimal characters
\* or that does not start with the namespace 5f4d76, and true for the
\* remaining inputs.
C16_AddressValidation ==
  lastCall.op = "isValidAddress" =>
    lastCall.returned.isValidAddress =
      Return(WellFormedAddress(lastCall.returned.address))

----------------------------------------------------------------------------
(* Calls made one after the other: JavaScript runs mine to its end before  *)
(* the caller's next call starts.                                          *)

MaxQueued == 2

\* addTransaction called while no mine call runs
addTransactionInTurn(transaction) ==
  /\ pc = "idle"
  /\ Len(pendingTransactions) < MaxQueued
  /\ pendingTransactions' = Append(pendingTransactions, transaction)
  /\ lastCall' = Call("addTransaction", Undefined, Undefined)
  /\ UNCHANGED <<blocks, difficulty, reward, pc, newBlock, i, hvars>>

SNext ==
  \/ \E transaction \in Transfers : addTransactionInTurn(transaction)
  \/ \E privateKey \in Miners : mineBegin(privateKey)
  \/ mineStep
  \/ mineEnd

SeqSpec == Init /\ [][SNext]_vars

IsRewardOf(transaction, amount) ==
  /\ transaction.source = Null
  /\ transaction.amount = amount
  /\ transaction.recipient = getPublicKey(transaction.signature.signer)
  /\ transaction.signature.signer \in Miners

\* C17: the block appended by mine(key) holds the transactions that were in
\* pendingTransactions when mine was called, in their queue order, followed
\* by one reward transaction (null source, recipient the public key of key,
\* amount chain.reward) as the last element; pendingTransactions is empty
\* when mine returns.
C17_MinedBlockContents ==
  [][/\ (pc = "idle" /\ pc' = "mining") =>
          /\ Len(newBlock'.transactions) = Len(pendingTransactions) + 1
          /\ SubSeq(newBlock'.transactions, 1, Len(pendingTransactions))
               = pendingTransactions
          /\ IsRewardOf(newBlock'.transactions[Len(newBlock'.transactions)],
                        reward)
     /\ (pc = "mining" /\ pc' = "mining") =>
          newBlock'.transactions = newBlock.transactions
     /\ (pc = "mining" /\ pc' = "idle") =>
          /\ blocks' = Append(blocks, newBlock)
          /\ pendingTransactions' = <<>>]_vars

C17_Witness ==
  /\ pc = "idle"
  /\ lastCall.op = "mine"
  /\ pendingTransactions = <<>>
  /\ LET transactions == getHeadBlock(blocks).transactions
     IN /\ Len(transactions) = MaxQueued + 1
        /\ transactions[1] # transactions[2]
        /\ transactions[1].source # Null
        /\ IsRewardOf(transactions[Len(transactions)], reward)

----------------------------------------------------------------------------
(* The ledger replay after a transaction marked it invalid *)

\* the debit and the credit of a transaction made on the balance map
Applied(state, txn) ==
  LET debited == IF Truthy(txn.source)
                 THEN [state EXCEPT !.bal[txn.source] =
                                       Plus(@, 0 - txn.amount)]
                 ELSE state
  IN [debited EXCEPT !.bal[txn.recipient] = Plus(@, txn.amount)]

InvalidBefore(n) == ~ReplayAfter(n - 1).isValid

\* C18 as claimed: after a transaction has marked the replay invalid, each
\* later transaction's debit and credit are still applied to the balance
\* map.
C18_ReplayContinues ==
  \A n \in 1..Len(AllTransactions(blocks)) :
    InvalidBefore(n) =>
      ReplayAfter(n).bal
        = Applied(ReplayAfter(n - 1), AllTransactions(blocks)[n]).bal

\* C18: after a transaction has marked the replay invalid, no later
\* transaction is processed: the reducer returns the state as it is, so the
\* balance map no longer changes and the verdict is false.
C18_ReplayStopsChanging ==
  /\ \A n \in 1..Len(AllTransactions(blocks)) :
       InvalidBefore(n) => ReplayAfter(n) = ReplayAfter(n - 1)
  /\ (Validated /\ InvalidBefore(Len(AllTransactions(blocks)) + 1)) =>
       lastCall.returned.isValidMineableChain = Return(FALSE)

C18_Witness ==
  /\ Validated
  /\ lastCall.returned.isValidMineableChain = Return(FALSE)
  /\ \E n \in 2..Len(AllTransactions(blocks)) :
       /\ InvalidBefore(n)
       /\ ~InvalidBefore(n - 1)
       /\ AllTransactions(blocks)[n].source # Null
       /\ AllTransactions(blocks)[n].amount = 0

----------------------------------------------------------------------------
(* Chains with transactions of negative amount *)

MaxNTxns == 4

\* the constructor takes any amount: transfers of amount 0 and of a
\* negative amount between two keys, and the reward of a miner
NSigners == {"kA", "kB"}
NAmounts == {0, 0 - DefaultReward}

NTransactions ==
  {MineableTransaction(k, getPublicKey(r), a) :
     k \in NSigners, r \in NSigners, a \in NAmounts}
    \cup {MineableTransaction("kA", Null, DefaultReward)}

\* the caller puts a mined block with one transaction at the end of blocks
pushMined(transaction) ==
  /\ Len(AllTransactions(blocks)) < MaxNTxns
  /\ blocks' = Append(blocks, Hashed(<<transaction>>,
                                     getHeadBlock(blocks).hash, TRUE))
  /\ lastCall' = Call("constructor", Undefined, Undefined)
  /\ UNCHANGED <<pendingTransactions, difficulty, reward, pc, newBlock, i,
                 hvars>>

NNext ==
  \/ \E transaction \in NTransactions : pushMined(transaction)
  \/ validate

NSpec == VInit /\ [][NNext]_vars

Negative(b) == b.t = "number" /\ b.v < 0

\* C19: whenever isValidMineableChain returns true, no identity's balance in
\* the ledger replay is negative after any prefix of the chain's
\* transactions, negative amounts included.
C19_NoNegativeBalance ==
  (Validated /\ lastCall.returned.isValidMineableChain = Return(TRUE)) =>
    \A n \in 0..Len(AllTransactions(blocks)) : \A p \in Identities :
      ~Negative(ReplayAfter(n).bal[p])

----------------------------------------------------------------------------
(* What isValidMineableChain reads of a chain *)

\* The chain with every signature, nonce and previousHash, and the genesis
\* hash, replaced by a fixed value: two chains that agree on difficulty,
\* reward, the stored hashes of the non-genesis blocks and the source,
\* recipient and amount of every transaction have the same Scrubbed chain.
ScrubbedTransaction(transaction) == [transaction EXCEPT !.signature = Null]

ScrubbedBlock(block, k) ==
  [transactions |-> [j \in 1..Len(block.transactions) |->
                       ScrubbedTransaction(block.transactions[j])],
   previousHash |-> Null,
   nonce |-> 0,
   hash |-> IF k = 1 THEN Null ELSE block.hash]

Scrubbed(blockchain) ==
  [blockchain EXCEPT !.blocks = [k \in 1..Len(blockchain.blocks) |->
                                   ScrubbedBlock(blockchain.blocks[k], k)]]

ForgedSignature(transaction) ==
  /\ transaction.source # Null
  /\ getPublicKey(transaction.signature.signer) # transaction.source

\* C20: the verdict of isValidMineableChain does not depend on transaction
\* signatures, block nonces or previousHash values: chains that agree on
\* difficulty, reward, every non-genesis block's stored hash and every
\* transaction's source, recipient and amount get the same verdict; a chain
\* with a forged signature can pass it while it fails isValidChain.
C20_VerdictIgnoresSignatures ==
  /\ isValidMineableChain(chain) = isValidMineableChain(Scrubbed(chain))
  /\ Validated =>
       lastCall.returned.isValidMineableChain
         = isValidMineableChain(Scrubbed(chain))

C20_Witness ==
  /\ Validated
  /\ \E k \in 2..Len(blocks) : \E j \in 1..Len(blocks[k].transactions) :
       ForgedSignature(blocks[k].transactions[j])
  /\ \E k \in 2..Len(blocks) : blocks[k].nonce # 0
  /\ lastCall.returned.isValidMineableChain = Return(TRUE)
  /\ lastCall.returned.isValidChain = Return(FALSE)

----------------------------------------------------------------------------
(* The proof-of-work search *)

MeetsDifficulty(block, nonce) ==
  leadingZeros(digest(block.transactions, block.previousHash, nonce),
               difficulty)

\* block carries the least nonce that meets the difficulty, and its hash
LeastNonceBlock(block) ==
  /\ block.nonce >= 0
  /\ MeetsDifficulty(block, block.nonce)
  /\ \A n \in 0..(block.nonce - 1) : ~MeetsDifficulty(block, n)
  /\ block.hash = digest(block.transactions, block.previousHash, block.nonce)

\* C21: the proof-of-work search of mine tries the nonces 0, 1, 2, ... in
\* increasing order, so the appended block's nonce is the least n >= 0 whose
\* hash over (transactions, previousHash, n) has at least difficulty leading
\* '0' characters; with difficulty 0 the block is accepted at nonce 0 with a
\* set hash.
C21_LeastNonce ==
  /\ \A k \in 2..Len(blocks) :
       /\ LeastNonceBlock(blocks[k])
       /\ difficulty = 0 =>
            blocks[k].nonce = 0 /\ blocks[k].hash.t = "string"
  /\ (pc = "mining" /\ i > 0) =>
       /\ newBlock.nonce = i - 1
       /\ newBlock.hash
            = digest(newBlock.transactions, newBlock.previousHash, i - 1)
       /\ \A n \in 0..(i - 2) : ~MeetsDifficulty(newBlock, n)
  /\ (pc = "mining" /\ i = 0) => newBlock.hash = Undefined

C21_Witness ==
  /\ pc = "idle"
  /\ difficulty = DefaultDifficulty
  /\ \E k \in 2..Len(blocks) :
       /\ blocks[k].nonce > 1
       /\ LeastNonceBlock(blocks[k])

----------------------------------------------------------------------------
(* Termination of mine.  difficulty is a public number: a difficulty above *)
(* the length of the digest is met by no hash.                             *)

DigestLength == Len(DigestTable[1])

LDifficulties == Difficulties \cup {DigestLength + 1}

LInit ==
  /\ blocks = <<Genesis>>
  /\ difficulty \in LDifficulties
  /\ reward = DefaultReward
  /\ pendingTransactions = <<>>
  /\ pc = "idle"
  /\ newBlock = Undefined
  /\ i = 0
  /\ lastCall = Call("constructor", Undefined, Undefined)
  /\ HandlerInit

LNext ==
  \/ /\ pc = "idle"
     /\ \E transaction \in Transfers : addTransaction(transaction)
  \/ \E privateKey \in Miners : mineBegin(privateKey)
  \/ mineStep
  \/ mineEnd

\* mine is running code: its loop takes its next iteration (which increments
\* i), and the push after the loop is executed (which ends the call)
LiveSpec ==
  /\ LInit
  /\ [][LNext]_vars
  /\ WF_i(mineStep)
  /\ WF_pc(mineEnd)

\* some nonce gives the block a hash that meets the difficulty (the digest
\* of the model repeats after Len(DigestTable) nonces)
Solvable(block) ==
  \E n \in 0..(Len(DigestTable) - 1) : MeetsDifficulty(block, n)

Hopeless == pc = "mining" /\ ~Solvable(newBlock)

\* C22: a started mine call eventually appends its block whenever some nonce
\* gives a hash that meets the difficulty; when no nonce does, mine never
\* appends and never returns, and the queue it cleared stays cleared: the
\* transactions it took are in no block and in no queue.
C22_MineTermination ==
  /\ \A n \in 1..(MaxMined + 1) :
       (pc = "mining" /\ Solvable(newBlock) /\ Len(blocks) = n)
         ~> (pc = "idle" /\ Len(blocks) = n + 1)
  /\ [][(pc = "mining" /\ pc' = "idle") =>
          (Solvable(newBlock) /\ blocks' = Append(blocks, newBlock))]_vars
  /\ [](Hopeless => [](pc = "mining"))
  /\ [][Hopeless => (blocks' = blocks /\ pendingTransactions' = <<>>)]_vars
  /\ [](Hopeless =>
          /\ pendingTransactions = <<>>
          /\ \A j \in 1..Len(newBlock.transactions) :
               \A n \in 1..Len(AllTransactions(blocks)) :
                 AllTransactions(blocks)[n] # newBlock.transactions[j])

C22_Witness ==
  /\ Hopeless
  /\ i >= Len(DigestTable)
  /\ Len(newBlock.transactions) > 1
  /\ pendingTransactions = <<>>
  /\ blocks = <<Genesis>>

----------------------------------------------------------------------------
(* The transaction handler: MojiHandler.apply and createCollection.        *)
(* Hashes are symbolic: get512Hash keeps what it was computed from, so     *)
(* different inputs give different hashes.                                 *)

InvalidTransaction(message) ==
  [t |-> "InvalidTransaction", message |-> message]

ERROR ==
  [UNKNOWN_ACTION |-> "The action is not recognized",
   POORLY_ENCODED |-> "The payload was poorly encoded.",
   ADDRESS_ALREADY_USED |-> "The user already have a collection."]

Actions == {"CREATE_COLLECTION", "SELECT_SIRE", "BREED_MOJI"}

\* str is the sequence of the parts that were concatenated and hashed
get512Hash(str) == [t |-> "string", sha512 |-> str]

getCollectionAddress(publicKey) ==
  [t |-> "string", namespace |-> NAMESPACE, prefix |-> "00",
   hash |-> <<get512Hash(<<publicKey>>)>>]

getMojiAddress(ownerKey, dna) ==
  [t |-> "string", namespace |-> NAMESPACE, prefix |-> "01",
   hash |-> <<get512Hash(<<ownerKey>>), get512Hash(<<dna>>)>>]

\* JSON.stringify and JSON.parse: a string is parsed to the object it was
\* made from; any other string is no JSON
JSONstringify(object) == [t |-> "string", json |-> object]

SyntaxError == [threw |-> TRUE, value |-> Undefined]

JSONparse(str) ==
  IF "json" \in DOMAIN str THEN Return(str.json) ELSE SyntaxError

\* the numbers randomizer(10000) returns: the generator is seeded with the
\* transaction's signature, which is kept as the draws it leads to
Draws == {4, 7}

getPrng(seed, n) == seed.draws[n]

\* Cryptomoji.createDNA: nonce is the index-th draw, undefined for index 0
createDNA(owner, index, seed) ==
  LET nonce == IF index > 0 THEN Num(getPrng(seed, index)) ELSE Undefined
  IN get512Hash(<<owner, nonce>>)

Cryptomoji(owner, index, seed) ==
  [owner |-> owner,
   dna |-> createDNA(owner, index, seed),
   breeder |-> Null,
   sire |-> Null,
   bred |-> <<>>,
   sired |-> <<>>]

Collection(owner) == [key |-> owner, moji |-> <<>>]

\* An updates object is the sequence of its entries in insertion order.
\* acc[address] = data
Assign(acc, address, data) ==
  IF \E n \in 1..Len(acc) : acc[n].address = address
  THEN [n \in 1..Len(acc) |->
          IF acc[n].address = address THEN [acc[n] EXCEPT !.data = data]
          ELSE acc[n]]
  ELSE Append(acc, [address |-> address, data |-> data])

Keys(updates) == [n \in 1..Len(updates) |-> updates[n].address]

\* context.getState for one address: the encoded resource, or an empty one
Empty == [t |-> "string", length |-> 0]

getState(address) ==
  IF address \in DOMAIN ledger THEN ledger[address] ELSE Empty

HasState(address) == getState(address) # Empty

\* context.setState: the state after the updates; it resolves with the
\* addresses updated
setState(updates) ==
  [address \in DOMAIN ledger \cup {updates[n].address : n \in 1..Len(updates)}
     |-> IF \E n \in 1..Len(updates) : updates[n].address = address
         THEN (CHOOSE entry \in {updates[n] : n \in 1..Len(updates)} :
                 entry.address = address).data
         ELSE ledger[address]]

StarterMoji == 3

\* mojiAddresses.reduce((acc, mojiAddress, i) => ..., {})
RECURSIVE MojiUpdates(_, _, _)
MojiUpdates(mojis, mojiAddresses, n) ==
  IF n = 0 THEN <<>>
  ELSE Assign(MojiUpdates(mojis, mojiAddresses, n - 1),
              mojiAddresses[n], JSONstringify(mojis[n]))

\* the transactions the validator hands to apply
Owners == {getPublicKey("kA"), getPublicKey("kB")}

Signatures == {[t |-> "string", draws |-> <<a, b>>] : a \in Draws, b \in Draws}

Payloads ==
  {JSONstringify([action |-> "CREATE_COLLECTION"]),
   JSONstringify([action |-> "MINT_MOJI"]),
   Str(<<"{">>)}

Requests ==
  {[payload |-> p, header |-> [signerPublicKey |-> o], signature |-> s] :
     p \in Payloads, o \in Owners, s \in Signatures}

\* apply: the payload is parsed and the action is looked up; createCollection
\* derives the collection address and asks for its state
apply(txn) ==
  /\ step = "idle"
  /\ request' = txn
  /\ setStateCalls' = <<>>
  /\ written' = <<>>
  /\ LET payload == JSONparse(txn.payload)
     IN IF payload.threw
        THEN /\ lastCall' = Call("apply",
                                 InvalidTransaction(ERROR.POORLY_ENCODED),
                                 Undefined)
             /\ step' = "idle"
        ELSE IF payload.value.action \notin Actions
        THEN /\ lastCall' = Call("apply",
                                 InvalidTransaction(ERROR.UNKNOWN_ACTION),
                                 Undefined)
             /\ step' = "idle"
        ELSE /\ lastCall' = Call("apply", Undefined, Undefined)
             /\ step' = "getState"
  /\ UNCHANGED <<blocks, pendingTransactions, difficulty, reward, pc,
                 newBlock, i, ledger>>

\* mutant: the state of the collection address is not looked at
thenWriteMoji_unchecked ==
  /\ step = "getState"
  /\ LET owner == request.header.signerPublicKey
         mojis == [n \in 1..StarterMoji |->
                     Cryptomoji(owner, n - 1, request.signature)]
         mojiAddresses == [n \in 1..StarterMoji |->
                             getMojiAddress(owner, mojis[n].dna)]
         updates == MojiUpdates(mojis, mojiAddresses, StarterMoji)
     IN /\ ledger' = setState(updates)
        /\ setStateCalls' = Append(setStateCalls, updates)
        /\ written' = Keys(updates)
        /\ step' = "setMoji"
        /\ lastCall' = Call("apply", Undefined, Undefined)
  /\ UNCHANGED <<blocks, pendingTransactions, difficulty, reward, pc,
                 newBlock, i, request>>

\* createCollection, first then: a collection address with state is
\* rejected; otherwise the mojis are made and written
thenWriteMoji ==
  /\ step = "getState"
  /\ LET owner == request.header.signerPublicKey
         collectionAddr == getCollectionAddress(owner)
         mojis == [n \in 1..StarterMoji |->
                     Cryptomoji(owner, n - 1, request.signature)]
         mojiAddresses == [n \in 1..StarterMoji |->
                             getMojiAddress(owner, mojis[n].dna)]
         updates == MojiUpdates(mojis, mojiAddresses, StarterMoji)
     IN IF HasState(collectionAddr)
        THEN /\ lastCall' =
                  Call("apply",
                       InvalidTransaction(ERROR.ADDRESS_ALREADY_USED),
                       Undefined)
             /\ step' = "idle"
             /\ UNCHANGED <<ledger, setStateCalls, written>>
        ELSE /\ ledger' = setState(updates)
             /\ setStateCalls' = Append(setStateCalls, updates)
             /\ written' = Keys(updates)
             /\ step' = "setMoji"
             /\ lastCall' = Call("apply", Undefined, Undefined)
  /\ UNCHANGED <<blocks, pendingTransactions, difficulty, reward, pc,
                 newBlock, i, request>>

\* createCollection, second then: the collection is written with the
\* addresses the first setState resolved with
thenWriteCollection ==
  /\ step = "setMoji"
  /\ LET owner == request.header.signerPublicKey
         collectionAddr == getCollectionAddress(owner)
         collection == [Collection(owner) EXCEPT !.moji = written]
         updates == <<[address |-> collectionAddr,
                       data |-> JSONstringify(collection)]>>
     IN /\ ledger' = setState(updates)
        /\ setStateCalls' = Append(setStateCalls, updates)
        /\ lastCall' = Call("apply", Undefined, Keys(updates))
  /\ step' = "idle"
  /\ UNCHANGED <<blocks, pendingTransactions, difficulty, reward, pc,
                 newBlock, i, request, written>>

HNext ==
  \/ \E txn \in Requests : apply(txn)
  \/ thenWriteMoji
  \/ thenWriteCollection

HSpec == VInit /\ [][HNext]_vars

Signer == request.header.signerPublicKey

\* updates holds StarterMoji entries, each a moji of the owner at its address
MojiOf(updates, owner) ==
  /\ Len(updates) = StarterMoji
  /\ \A n \in 1..Len(updates) :
       /\ updates[n].data.json.owner = owner
       /\ updates[n].address = getMojiAddress(owner, updates[n].data.json.dna)

StarterAddresses ==
  {getMojiAddress(Signer, Cryptomoji(Signer, n - 1, request.signature).dna) :
     n \in 1..StarterMoji}

\* updates holds one entry for each address of a starter moji, each a moji
\* of the owner at its address
MojiPerAddress(updates, owner) ==
  /\ {updates[n].address : n \in 1..Len(updates)} = StarterAddresses
  /\ Len(updates) = Cardinality(StarterAddresses)
  /\ \A n \in 1..Len(updates) :
       /\ updates[n].data.json.owner = owner
       /\ updates[n].address = getMojiAddress(owner, updates[n].data.json.dna)

DistinctDraws ==
  getPrng(request.signature, 1) # getPrng(request.signature, 2)

====
